---- MODULE Spec2Model ----
(***************************************************************************)
(* The CRM GraphQL schema of crm/schema.py: the Customer, Product and      *)
(* Order tables with the Order-Product association, the three by-id        *)
(* resolvers and the four mutations.  Strings are sequences of one-        *)
(* character strings, decimals are integer cents, primary keys are the     *)
(* row's position in its table (rows are never deleted by the schema).     *)
(***************************************************************************)
EXTENDS Integers, Sequences, FiniteSets, Bags, TLC

VARIABLES customers, products, orders, order_products, inflight, last

vars == <<customers, products, orders, order_products, inflight, last>>

\* ------------------------------------------------------------------ bounds
MaxCustomers == 2
MaxProducts == 2
MaxOrders == 2
MaxBatch == 2
SeedCustomers == 1
SeedProducts == 2

\* ----------------------------------------------------------------- strings
Digit == {"0", "1", "2", "3", "4", "5", "6", "7", "8", "9"}

\* [-.\s] of the phone pattern (of \s, the space, the tab and the newline).
Sep == {"-", ".", " ", "\t", "\n"}

Range(s) == {s[i] : i \in 1..Len(s)}

\* A phone argument: None (null) or a string.
None == [null |-> TRUE, text |-> <<>>]

Str(s) == [null |-> FALSE, text |-> s]

\* Python truthiness of an optional string: None and "" are falsy.
Truthy(phone) == ~phone.null /\ phone.text # <<>>

\* ------------------------------------------------------- phone pattern
\* The matcher works on sets of positions: P holds the indexes of the next
\* unread character after some way of matching the pattern so far.

\* c? : an optional character of class C.
OptChar(s, P, C) ==
  P \cup {p + 1 : p \in {q \in P : q <= Len(s) /\ s[q] \in C}}

\* \d{lo,hi}
Digits(s, P, lo, hi) ==
  UNION {{p + k : k \in {j \in lo..hi :
                           /\ p + j - 1 <= Len(s)
                           /\ \A i \in p..(p + j - 1) : s[i] \in Digit}}
         : p \in P}

\* (\(?\d{2,4}\)?)?
AreaGroup(s, P) ==
  P \cup OptChar(s, Digits(s, OptChar(s, P, {"("}), 2, 4), {")"})

\* ^\+?(\d{1,3})?[-.\s]?(\(?\d{2,4}\)?)?[-.\s]?(\d{3,4})[-.\s]?(\d{4,6})
PhoneEnds(s) ==
  LET p1 == OptChar(s, {1}, {"+"})
      p2 == p1 \cup Digits(s, p1, 1, 3)
      p3 == OptChar(s, p2, Sep)
      p4 == AreaGroup(s, p3)
      p5 == OptChar(s, p4, Sep)
      p6 == Digits(s, p5, 3, 4)
      p7 == OptChar(s, p6, Sep)
  IN  Digits(s, p7, 4, 6)

\* re.match(pattern, phone): $ matches at the end of the string and before a
\* newline that ends it.
PhoneMatch(s) ==
  \/ Len(s) + 1 \in PhoneEnds(s)
  \/ Len(s) >= 1 /\ s[Len(s)] = "\n" /\ Len(s) \in PhoneEnds(s)

\* ------------------------------------------------------------- email
LocalChar == {"a", "b", "c", "."}

DomainChar == {"a", "b", "c", "."}

\* No leading, trailing or doubled period.
DotsOk(s) ==
  /\ s # <<>>
  /\ s[1] # "."
  /\ s[Len(s)] # "."
  /\ \A i \in 1..(Len(s) - 1) : ~(s[i] = "." /\ s[i + 1] = ".")

\* validate_email(email) of the email_validator package, its syntax check:
\* one @-sign, a dot-atom before it, a domain of at least two labels after.
EmailValid(email) ==
  /\ Cardinality({i \in 1..Len(email) : email[i] = "@"}) = 1
  /\ LET at == CHOOSE i \in 1..Len(email) : email[i] = "@"
         local == SubSeq(email, 1, at - 1)
         domain == SubSeq(email, at + 1, Len(email))
     IN  /\ DotsOk(local)
         /\ Range(local) \subseteq LocalChar
         /\ DotsOk(domain)
         /\ Range(domain) \subseteq DomainChar
         /\ "." \in Range(domain)

\* ------------------------------------------------------------ inputs
Names == {"Alice"}

EmailInputs ==
  { <<"a", "@", "b", ".", "c">>,
    <<"a", "b", ".", "c">>,
    <<"a", "@", "b">> }

GoodEmail == <<"a", "@", "b", ".", "c">>

BadEmail == <<"a", "b", ".", "c">>

GoodPhone == Str(<<"1", "2", "3", "-", "4", "5", "6", "-", "7", "8", "9", "0">>)

BadPhone == Str(<<"1", "2", "3", "-", "4", "5">>)

PhoneInputs == {None, Str(<<>>), GoodPhone, BadPhone}

\* CustomerInput: name and email required, phone optional.  The records a
\* batch is made of: one valid, one failing each check, one failing both.
CustomerInput ==
  { [name |-> "Alice", email |-> GoodEmail, phone |-> GoodPhone],
    [name |-> "Alice", email |-> BadEmail, phone |-> None],
    [name |-> "Alice", email |-> GoodEmail, phone |-> BadPhone],
    [name |-> "Alice", email |-> BadEmail, phone |-> BadPhone] }

SeqUpTo(S, n) == UNION {[1..k -> S] : k \in 0..n}

\* The two validators tabulated over the inputs (evaluated once).
EmailOk == [e \in EmailInputs |-> EmailValid(e)]

PhoneOk == [p \in PhoneInputs |-> PhoneMatch(p.text)]

\* ----------------------------------------------------------------- store
\* No request has run; every table is empty.
Init ==
  /\ customers = <<>>
  /\ products = <<>>
  /\ orders = <<>>
  /\ order_products = EmptyBag
  /\ inflight = {}
  /\ last = [op |-> "none"]

\* Model.objects.get(pk=id): the row with that key, or DoesNotExist (no row).
Get(table, id) ==
  IF id \in DOMAIN table THEN {[pk |-> id, row |-> table[id]]} ELSE {}

\* ------------------------------------------------------------- resolvers
\* Variant: the lookup without its except clause.
ResolveMutantNoExcept(id) ==
  IF Get(customers, id) = {} THEN [error |-> "DoesNotExist", node |-> {}]
  ELSE [error |-> "", node |-> Get(customers, id)]

\* try: return Customer.objects.get(pk=id); except DoesNotExist: return None
resolve_customer_by_id(id) ==
  IF Get(customers, id) = {} THEN [error |-> "", node |-> {}]
  ELSE [error |-> "", node |-> Get(customers, id)]

CustomerById ==
  \E id \in 0..(MaxCustomers + 1) :
    /\ last' = [op |-> "customer_by_id", id |-> id,
                result |-> resolve_customer_by_id(id)]
    /\ UNCHANGED <<customers, products, orders, order_products, inflight>>

\* ------------------------------------------------------- create_customer
InvalidEmail == "Invalid email format"

InvalidPhone == "Invalid phone number format"

\* Variant: validate_email is not called.
CreateCustomerMutantNoEmailCheck(email, phone) ==
  IF Truthy(phone) /\ ~PhoneOk[phone] THEN InvalidPhone ELSE ""

\* Variant: the phone pattern is not applied.
CreateCustomerMutantNoPhoneCheck(email, phone) ==
  IF ~EmailOk[email] THEN InvalidEmail ELSE ""

\* The checks of CreateCustomer.mutate, in order: the message of the
\* exception raised, "" when none is.
CreateCustomerError(email, phone) ==
  IF ~EmailOk[email] THEN InvalidEmail
  ELSE IF Truthy(phone) /\ ~PhoneOk[phone] THEN InvalidPhone
  ELSE ""

CreateCustomer ==
  \E name \in Names, email \in EmailInputs, phone \in PhoneInputs :
    LET err == CreateCustomerError(email, phone)
        req == [name |-> name, email |-> email, phone |-> phone]
    IN  \/ /\ err # ""
           /\ last' = [op |-> "create_customer", args |-> req,
                       error |-> err, customer |-> {}]
           /\ UNCHANGED <<customers, products, orders, order_products, inflight>>
        \/ /\ err = ""
           /\ Len(customers) < MaxCustomers
           /\ customers' = Append(customers, req)
           /\ last' = [op |-> "create_customer", args |-> req,
                       error |-> "",
                       customer |-> {[pk |-> Len(customers) + 1, row |-> req]}]
           /\ UNCHANGED <<products, orders, order_products, inflight>>

\* ------------------------------------------------- bulk_create_customers
ErrorDetail(field, message, value) ==
  [field |-> field, message |-> message, value |-> value]

EmailError(d) == ErrorDetail("email", "Invalid email for customer", d.email)

PhoneError(d) ==
  ErrorDetail("phone", "Invalid phone number for customer", d.phone.text)

DatabaseError ==
  ErrorDetail("database", "Failed to bulk create customers due to a databse error",
              <<"N", "/", "A">>)

\* Variant: a failed phone check does not set has_error.
RECURSIVE ValidateMutantKeepsBadPhone(_, _, _, _)
ValidateMutantKeepsBadPhone(batch, i, objs, errors_list) ==
  IF i > Len(batch) THEN [objs |-> objs, errors_list |-> errors_list]
  ELSE LET d == batch[i]
           bad_email == ~EmailOk[d.email]
           bad_phone == Truthy(d.phone) /\ ~PhoneOk[d.phone]
           e1 == IF bad_email THEN Append(errors_list, EmailError(d))
                 ELSE errors_list
           e2 == IF bad_phone THEN Append(e1, PhoneError(d)) ELSE e1
       IN  ValidateMutantKeepsBadPhone(batch, i + 1,
             IF bad_email THEN objs ELSE Append(objs, d), e2)

\* The validation loop from customers[i] on: has_error is set by either
\* failed check, and each failed check appends its own ErrorDetail.
RECURSIVE Validate(_, _, _, _)
Validate(batch, i, objs, errors_list) ==
  IF i > Len(batch) THEN [objs |-> objs, errors_list |-> errors_list]
  ELSE LET d == batch[i]
           bad_email == ~EmailOk[d.email]
           bad_phone == Truthy(d.phone) /\ ~PhoneOk[d.phone]
           e1 == IF bad_email THEN Append(errors_list, EmailError(d))
                 ELSE errors_list
           e2 == IF bad_phone THEN Append(e1, PhoneError(d)) ELSE e1
           has_error == bad_email \/ bad_phone
       IN  Validate(batch, i + 1,
             IF has_error THEN objs ELSE Append(objs, d), e2)

\* Variant: the failure payload reports len(objs).
BulkFailureMutantKeepsCount(objs, errors_list) ==
  [ok |-> FALSE, created_count |-> Len(objs),
   errors |-> Append(errors_list, DatabaseError)]

\* except Exception: the payload returned when bulk_create raised.
BulkFailure(objs, errors_list) ==
  [ok |-> FALSE, created_count |-> 0,
   errors |-> Append(errors_list, DatabaseError)]

\* Variant: ok does not look at errors_list.
BulkSuccessMutantAlwaysOk(objs, errors_list) ==
  [ok |-> TRUE, created_count |-> Len(objs), errors |-> errors_list]

\* success = not bool(errors_list): the payload returned after the insert.
BulkSuccess(objs, errors_list) ==
  [ok |-> errors_list = <<>>, created_count |-> Len(objs),
   errors |-> errors_list]

\* The request's customers argument, and the loop's outcome for each.
Batches == SeqUpTo(CustomerInput, MaxBatch)

Validated == [batch \in Batches |-> Validate(batch, 1, <<>>, <<>>)]

\* Customer.objects.bulk_create(objs) inserts all of objs in one statement or
\* raises and inserts none; with no objs it returns before reaching the
\* database, so it can fail only when there is something to insert.
BulkCreateCustomers ==
  \E batch \in Batches, db_fails \in BOOLEAN :
    LET v == Validated[batch]
    IN  \/ /\ db_fails
           /\ v.objs # <<>>
           /\ last' = [op |-> "bulk_create_customers", args |-> batch,
                       db_failed |-> TRUE,
                       result |-> BulkFailure(v.objs, v.errors_list)]
           /\ UNCHANGED <<customers, products, orders, order_products, inflight>>
        \/ /\ ~db_fails
           /\ Len(customers) + Len(v.objs) <= MaxCustomers
           /\ customers' = customers \o v.objs
           /\ last' = [op |-> "bulk_create_customers", args |-> batch,
                       db_failed |-> FALSE,
                       result |-> BulkSuccess(v.objs, v.errors_list)]
           /\ UNCHANGED <<products, orders, order_products, inflight>>

NextCustomers == CreateCustomer \/ BulkCreateCustomers \/ CustomerById

\* The customer requests alone; no other request writes the Customer table.
SpecCustomers == Init /\ [][NextCustomers]_vars

\* -------------------------------------------------------- create_product
\* Prices in cents (-1 is -0.01) and stock levels of the requests.
PriceInputs == {-1, 0, 550, 1000}

StockInputs == {-1, 0, 3}

resolve_product_by_id(id) ==
  IF Get(products, id) = {} THEN [error |-> "", node |-> {}]
  ELSE [error |-> "", node |-> Get(products, id)]

ProductById ==
  \E id \in 0..(MaxProducts + 1) :
    /\ last' = [op |-> "product_by_id", id |-> id,
                result |-> resolve_product_by_id(id)]
    /\ UNCHANGED <<customers, products, orders, order_products, inflight>>

NegativePrice == "Price cannot be negative."

NegativeStock == "Stock cannot be negative"

\* Variant: the comparisons are <= 0.
CreateProductMutantRejectsZero(price, stock) ==
  IF price <= 0 THEN NegativePrice
  ELSE IF stock <= 0 THEN NegativeStock
  ELSE ""

\* The checks of CreateProduct.mutate: the message of the exception raised.
CreateProductError(price, stock) ==
  IF price < 0 THEN NegativePrice
  ELSE IF stock < 0 THEN NegativeStock
  ELSE ""

CreateProduct ==
  \E name \in {"Laptop Pro"}, price \in PriceInputs, stock \in StockInputs :
    LET err == CreateProductError(price, stock)
        req == [name |-> name, price |-> price, stock |-> stock]
    IN  \/ /\ err # ""
           /\ last' = [op |-> "create_product", args |-> req,
                       error |-> err, product |-> {}]
           /\ UNCHANGED <<customers, products, orders, order_products, inflight>>
        \/ /\ err = ""
           /\ Len(products) < MaxProducts
           /\ products' = Append(products, req)
           /\ last' = [op |-> "create_product", args |-> req,
                       error |-> "",
                       product |-> {[pk |-> Len(products) + 1, row |-> req]}]
           /\ UNCHANGED <<customers, orders, order_products, inflight>>

NextProducts == CreateProduct \/ ProductById

\* The product requests alone; no other request writes the Product table.
SpecProducts == Init /\ [][NextProducts]_vars

\* ---------------------------------------------------------- create_order
\* The Order-Product association is the bag of its rows [order, product].
ProductsOf(rows, order) ==
  {r.product : r \in {q \in BagToSet(rows) : q.order = order}}

\* Variant: set() adds a row for every occurrence in the list.
SetMutantAddsEachOccurrence(rows, order, products_to_add) ==
  [r \in {q \in BagToSet(rows) : q.order # order} |-> rows[r]]
  (+) [r \in {[order |-> order, product |-> products_to_add[i]]
                : i \in 1..Len(products_to_add)}
         |-> Cardinality({i \in 1..Len(products_to_add)
                            : products_to_add[i] = r.product})]

\* order.products.set(products_to_add): the order's rows become one row for
\* each distinct product of the list (rows of products not in the list are
\* removed, a product already associated or listed twice is added once).
SetProducts(rows, order, products_to_add) ==
  [r \in {q \in BagToSet(rows) : q.order # order} |-> rows[r]]
  (+) SetToBag({[order |-> order, product |-> products_to_add[i]]
                 : i \in 1..Len(products_to_add)})

\* sum(product.price for product in self.products.all()): one term for each
\* association row of the order.
RECURSIVE SumRows(_, _)
SumRows(rows, S) ==
  IF S = {} THEN 0
  ELSE LET r == CHOOSE x \in S : TRUE
       IN  rows[r] * products[r.product].price + SumRows(rows, S \ {r})

resolve_total_amount(rows, order) ==
  SumRows(rows, {q \in BagToSet(rows) : q.order = order})

\* An Order as the API returns it: its row, its products and total_amount.
OrderNode(rows, id, row) ==
  [pk |-> id, row |-> row, products |-> ProductsOf(rows, id),
   total_amount |-> resolve_total_amount(rows, id)]

resolve_order_by_id(id) ==
  IF Get(orders, id) = {} THEN [error |-> "", node |-> {}]
  ELSE [error |-> "", node |-> {OrderNode(order_products, id, orders[id])}]

OrderById ==
  \E id \in 0..(MaxOrders + 1) :
    /\ last' = [op |-> "order_by_id", id |-> id,
                result |-> resolve_order_by_id(id)]
    /\ UNCHANGED <<customers, products, orders, order_products, inflight>>

CustomerNotFound == "Customer with ID does not exist."

ProductNotFound == "Product with ID does not exist."

NoProducts == "No valid products provided for the order."

\* for product_id in product_ids: the first id with no Product raises.
RECURSIVE ResolveProducts(_, _, _)
ResolveProducts(product_ids, i, products_to_add) ==
  IF i > Len(product_ids)
  THEN [error |-> "", products_to_add |-> products_to_add]
  ELSE IF Get(products, product_ids[i]) = {}
  THEN [error |-> ProductNotFound, products_to_add |-> products_to_add]
  ELSE ResolveProducts(product_ids, i + 1,
                       Append(products_to_add, product_ids[i]))

\* Variant: the product loop skips an id with no Product.
ChecksMutantSkipsMissing(customer_id, product_ids) ==
  IF Get(customers, customer_id) = {}
  THEN [error |-> CustomerNotFound, products_to_add |-> <<>>]
  ELSE LET found == SelectSeq(product_ids, LAMBDA x : Get(products, x) # {})
       IN  IF found = <<>>
           THEN [error |-> NoProducts, products_to_add |-> <<>>]
           ELSE [error |-> "", products_to_add |-> found]

\* CreateOrder.mutate up to order.save(): the exception raised, or the
\* products to add.
Checks(customer_id, product_ids) ==
  IF Get(customers, customer_id) = {}
  THEN [error |-> CustomerNotFound, products_to_add |-> <<>>]
  ELSE LET r == ResolveProducts(product_ids, 1, <<>>)
       IN  IF r.error # "" THEN r
           ELSE IF r.products_to_add = <<>>
           THEN [error |-> NoProducts, products_to_add |-> <<>>]
           ELSE r

\* The customer_id and product_ids arguments: ids with and without a row, a
\* list that is empty, repeats an id, or names a missing product first or last.
CustomerIds == 0..(SeedCustomers + 1)

MissingId == SeedProducts + 1

ProductIdLists ==
  { <<>>, <<1>>, <<2>>, <<1, 1>>, <<1, 2>>, <<2, 1>>,
    <<MissingId>>, <<1, MissingId>>, <<MissingId, 1>> }

CreateOrderFails ==
  \E customer_id \in CustomerIds, product_ids \in ProductIdLists :
    LET c == Checks(customer_id, product_ids)
    IN  /\ c.error # ""
        /\ last' = [op |-> "create_order", customer_id |-> customer_id,
                    product_ids |-> product_ids, error |-> c.error,
                    order |-> {}]
        /\ UNCHANGED <<customers, products, orders, order_products, inflight>>

\* One create_order request run alone, from its checks to its return.
CreateOrder ==
  \/ CreateOrderFails
  \/ \E customer_id \in CustomerIds, product_ids \in ProductIdLists :
       LET c == Checks(customer_id, product_ids)
           id == Len(orders) + 1
           row == [customer |-> customer_id]
           rows == SetProducts(order_products, id, c.products_to_add)
       IN  /\ c.error = ""
           /\ Len(orders) < MaxOrders
           /\ orders' = Append(orders, row)
           /\ order_products' = rows
           /\ last' = [op |-> "create_order", customer_id |-> customer_id,
                       product_ids |-> product_ids, error |-> "",
                       order |-> {OrderNode(rows, id, row)}]
           /\ UNCHANGED <<customers, products, inflight>>

\* order = Order(customer=customer); order.save(): the row is committed, the
\* request goes on to set its products.
CreateOrderSave ==
  \E customer_id \in CustomerIds, product_ids \in ProductIdLists :
    LET c == Checks(customer_id, product_ids)
        id == Len(orders) + 1
    IN  /\ c.error = ""
        /\ Len(orders) < MaxOrders
        /\ orders' = Append(orders, [customer |-> customer_id])
        /\ inflight' = inflight \cup
             {[order |-> id, customer_id |-> customer_id,
               product_ids |-> product_ids,
               products_to_add |-> c.products_to_add]}
        /\ last' = [op |-> "create_order.save", order |-> id]
        /\ UNCHANGED <<customers, products, order_products>>

\* order.products.set(products_to_add); return CreateOrder(order=order)
CreateOrderSetProducts ==
  \E r \in inflight :
    LET rows == SetProducts(order_products, r.order, r.products_to_add)
    IN  /\ order_products' = rows
        /\ inflight' = inflight \ {r}
        /\ last' = [op |-> "create_order", customer_id |-> r.customer_id,
                    product_ids |-> r.product_ids, error |-> "",
                    order |-> {OrderNode(rows, r.order, orders[r.order])}]
        /\ UNCHANGED <<customers, products, orders>>

\* Every request of the schema, each run alone, on a store that starts empty.
Next ==
  \/ CreateCustomer
  \/ BulkCreateCustomers
  \/ CreateProduct
  \/ CreateOrder
  \/ CustomerById
  \/ ProductById
  \/ OrderById

Spec == Init /\ [][Next]_vars

\* A store filled by earlier create_customer and create_product requests.
StoredCustomer == [name |-> "Alice", email |-> GoodEmail, phone |-> GoodPhone]

StoredProduct(i) ==
  [name |-> "Laptop Pro", price |-> IF i % 2 = 1 THEN 550 ELSE 1000,
   stock |-> 0]

InitOrders ==
  /\ customers \in {[i \in 1..n |-> StoredCustomer] : n \in 0..SeedCustomers}
  /\ products \in {[i \in 1..n |-> StoredProduct(i)] : n \in 0..SeedProducts}
  /\ orders = <<>>
  /\ order_products = EmptyBag
  /\ inflight = {}
  /\ last = [op |-> "none"]

NextOrders == CreateOrder \/ CustomerById \/ ProductById \/ OrderById

\* Requests served one at a time.
SpecOrders == InitOrders /\ [][NextOrders]_vars

NextConcurrent ==
  \/ CreateOrderFails
  \/ CreateOrderSave
  \/ CreateOrderSetProducts
  \/ OrderById

\* Requests served concurrently: each statement of create_order commits on
\* its own, so another request may run between order.save() and set().
SpecConcurrent == InitOrders /\ [][NextConcurrent]_vars

\* ================================================================ claims
\* A record of a batch is invalid when its email fails validation or its
\* non-empty phone fails the phone pattern.
BadEmailOf(d) == ~EmailValid(d.email)

BadPhoneOf(d) ==
  ~d.phone.null /\ d.phone.text # <<>> /\ ~PhoneMatch(d.phone.text)

ValidIn(batch) ==
  {i \in 1..Len(batch) : ~BadEmailOf(batch[i]) /\ ~BadPhoneOf(batch[i])}

InvalidIn(batch) == (1..Len(batch)) \ ValidIn(batch)

BothBadIn(batch) ==
  {i \in 1..Len(batch) : BadEmailOf(batch[i]) /\ BadPhoneOf(batch[i])}

IsBulk == last.op = "bulk_create_customers"

\* C1, as stated: when the insert succeeds, a batch of N valid and M invalid
\* records returns created_count = N and exactly M errors.
C1_CountsAsStated ==
  (IsBulk /\ ~last.db_failed) =>
    /\ last.result.created_count = Cardinality(ValidIn(last.args))
    /\ Len(last.result.errors) = Cardinality(InvalidIn(last.args))

\* C1, amended: when the insert succeeds, created_count = N, and the errors
\* list holds one entry for each failed check: M entries plus one more for
\* each record that fails both the email and the phone check.
C1_CountsPerFailedCheck ==
  (IsBulk /\ ~last.db_failed) =>
    /\ last.result.created_count = Cardinality(ValidIn(last.args))
    /\ Len(last.result.errors) =
         Cardinality(InvalidIn(last.args)) + Cardinality(BothBadIn(last.args))
    /\ Cardinality({i \in 1..Len(last.result.errors)
                      : last.result.errors[i].field = "email"})
         = Cardinality({i \in 1..Len(last.args) : BadEmailOf(last.args[i])})
    /\ Cardinality({i \in 1..Len(last.result.errors)
                      : last.result.errors[i].field = "phone"})
         = Cardinality({i \in 1..Len(last.args) : BadPhoneOf(last.args[i])})

\* A batch of one valid record and one failing both checks was inserted.
C1_Witness ==
  /\ IsBulk
  /\ ~last.db_failed
  /\ Cardinality(ValidIn(last.args)) = 1
  /\ Cardinality(BothBadIn(last.args)) = 1
  /\ last.result.created_count = 1
  /\ Len(last.result.errors) = 2

\* C2: create_customer with an email that fails validation raises the
\* invalid-email error and leaves the Customer table as it was, whatever the
\* name and phone.
C2_InvalidEmailPersistsNothing ==
  [][(last'.op = "create_customer" /\ ~EmailValid(last'.args.email)) =>
       /\ last'.error = InvalidEmail
       /\ last'.customer = {}
       /\ customers' = customers]_vars

\* A rejected email with a phone that would pass, on a store that holds a
\* customer.
C2_Witness ==
  /\ last.op = "create_customer"
  /\ ~EmailValid(last.args.email)
  /\ last.args.phone = GoodPhone
  /\ last.error = InvalidEmail
  /\ customers # <<>>

NonNegative(row) == row.price >= 0 /\ row.stock >= 0

\* C4: create_product appends the product exactly when price >= 0 and
\* stock >= 0, otherwise raises and leaves the Product table as it was, so
\* every stored Product has price >= 0 and stock >= 0.
C4_ProductNonNegative ==
  [][last'.op = "create_product" =>
       /\ NonNegative(last'.args) <=>
            /\ products' = Append(products, last'.args)
            /\ last'.error = ""
            /\ last'.product = {[pk |-> Len(products) + 1, row |-> last'.args]}
       /\ ~NonNegative(last'.args) =>
            /\ last'.error # ""
            /\ last'.product = {}
            /\ products' = products
       /\ \A i \in DOMAIN products' : NonNegative(products'[i])]_vars

\* The boundary request price = 0, stock = 0 was stored.
C4_Witness ==
  /\ last.op = "create_product"
  /\ last.args.price = 0
  /\ last.args.stock = 0
  /\ last.product # {}
  /\ products[Len(products)] = last.args

\* The prices of a set of products, each counted once.
RECURSIVE SumPrices(_)
SumPrices(S) ==
  IF S = {} THEN 0
  ELSE LET p == CHOOSE x \in S : TRUE
       IN  products[p].price + SumPrices(S \ {p})

\* C5: whenever an Order is read, its total_amount is the sum of the prices
\* of the products associated with it, each counted once, also when
\* product_ids repeated an id; the Order row stores no total.
C5_TotalIsSumOfAssociated ==
  /\ \A id \in DOMAIN orders :
       /\ DOMAIN orders[id] = {"customer"}
       /\ \A n \in resolve_order_by_id(id).node :
            n.total_amount = SumPrices(ProductsOf(order_products, id))
  /\ last.op = "order_by_id" =>
       \A n \in last.result.node : n.total_amount = SumPrices(n.products)
  /\ (last.op = "create_order" /\ last.error = "") =>
       \A n \in last.order :
         /\ n.products = Range(last.product_ids)
         /\ n.total_amount = SumPrices(Range(last.product_ids))

\* create_order was called with the same product id twice.
C5_Witness ==
  /\ last.op = "create_order"
  /\ last.error = ""
  /\ Len(last.product_ids) = 2
  /\ last.product_ids[1] = last.product_ids[2]
  /\ \A n \in last.order : n.total_amount = products[last.product_ids[1]].price
  /\ last.order # {}

\* C6: when the insert of bulk_create_customers fails, the result is
\* ok = false, created_count = 0, with one database error in the list, and
\* the Customer table is left as it was.
C6_InsertFailure ==
  [][(last'.op = "bulk_create_customers" /\ last'.db_failed) =>
       /\ last'.result.ok = FALSE
       /\ last'.result.created_count = 0
       /\ Cardinality({i \in 1..Len(last'.result.errors)
                         : last'.result.errors[i].field = "database"}) = 1
       /\ customers' = customers]_vars

\* The insert of a batch with a valid and an invalid record failed.
C6_Witness ==
  /\ IsBulk
  /\ last.db_failed
  /\ ValidIn(last.args) # {}
  /\ InvalidIn(last.args) # {}
  /\ last.result.created_count = 0
  /\ customers # <<>>

Store == <<customers, products, orders, order_products>>

C8_StoredCustomersValid ==
  \A i \in DOMAIN customers :
    /\ EmailValid(customers[i].email)
    /\ \/ customers[i].phone.null
       \/ customers[i].phone.text = <<>>
       \/ PhoneMatch(customers[i].phone.text)

\* A batch with a valid and an invalid record went in after create_customer
\* stored a customer with an empty phone.
C8_Witness ==
  /\ IsBulk
  /\ ~last.db_failed
  /\ ValidIn(last.args) # {}
  /\ InvalidIn(last.args) # {}
  /\ Len(customers) >= 2
  /\ customers[1].phone = Str(<<>>)

\* C9, as stated: in every state a reader can observe, every stored Order
\* references an existing Customer and at least one existing Product.
C9_OrdersAlwaysHaveProducts ==
  /\ \A id \in DOMAIN orders :
       /\ orders[id].customer \in DOMAIN customers
       /\ ProductsOf(order_products, id) # {}
       /\ ProductsOf(order_products, id) \subseteq DOMAIN products
  /\ last.op = "order_by_id" =>
       \A n \in last.result.node : n.products # {}

\* C10: ok is true exactly when the errors list is empty; a batch with an
\* invalid record returns ok = false with created_count the number of valid
\* records inserted; an empty batch returns ok = true and created_count = 0.
C10_OkIffNoErrors ==
  IsBulk =>
    /\ last.result.ok <=> last.result.errors = <<>>
    /\ (InvalidIn(last.args) # {} /\ ~last.db_failed) =>
         /\ last.result.ok = FALSE
         /\ last.result.created_count = Cardinality(ValidIn(last.args))
    /\ last.args = <<>> =>
         /\ last.result.ok = TRUE
         /\ last.result.created_count = 0
         /\ ~last.db_failed

\* A batch of one valid and one invalid record: ok = false, created_count = 1.
C10_Witness ==
  /\ IsBulk
  /\ ~last.db_failed
  /\ InvalidIn(last.args) # {}
  /\ last.result.ok = FALSE
  /\ last.result.created_count = 1
  /\ customers # <<>>

====
